---- MODULE Spec2Model ----
(***************************************************************************)
(* Model of the Waveshare ST7789 display driver (src/src/display.rs) and    *)
(* of the rendering loop that drives it (src/src/main.rs).                 *)
(*                                                                         *)
(* Every driver function is a straight-line sequence of effects on the     *)
(* pins, the delay source, the SPI bus and the DMA channel.  Each function *)
(* is written here as the sequence of its effects, in source order         *)
(* (InitOps, SwapBuffersOps, ...), and one action per kind of effect       *)
(* executes the effect at the program counter.  The DMA engine is a        *)
(* hardware process of its own: DmaStep moves one word of the in-flight    *)
(* transfer and interleaves freely with the CPU.                           *)
(*                                                                         *)
(* `log` is what a recording bus/pin/delay/DMA double would have recorded: *)
(* every pin transition, requested delay, bus write, transfer start and    *)
(* completed wait, and the calls and returns of init() and swap_buffers(). *)
(*                                                                         *)
(* A frame buffer is modelled by BufLen of its BUFFER_SIZE bytes (sampled  *)
(* blue-channel bytes, the only ones that depend on frame_count).          *)
(***************************************************************************)
EXTENDS Integers, Sequences, FiniteSets, TLC

VARIABLES proc, pc, cs, dc, rst, spi, dma_ch, transfer, locals, hw,
          buffer, mem, allocated, frame_count, led, last_write_ok, log

vars == <<proc, pc, cs, dc, rst, spi, dma_ch, transfer, locals, hw,
          buffer, mem, allocated, frame_count, led, last_write_ok, log>>

\* ----------------------------------------------------------------- bounds
\* Number of bytes of a frame buffer that the model tracks.
BufLen == 2
\* Number of iterations of the rendering loop that the model explores.
MaxFrames == 6

\* -------------------------------------------------------------- constants
WIDTH == 240
HEIGHT == 320

SwReset == 1
SlpOut == 17
InvOn == 33
DispOn == 41
CaSet == 42
RaSet == 43
RamWr == 44
MadCtl == 54
ColMod == 58
PvGamCtrl == 224
NvGamCtrl == 225

PvGamma == <<208, 8, 17, 8, 12, 21, 57, 51, 80, 54, 19, 20, 41, 45>>
NvGamma == <<208, 8, 16, 8, 6, 6, 57, 68, 81, 11, 22, 20, 47, 49>>

None == "none"
Buffers == {"A", "B"}
High == 1
Low == 0

\* `x as u8`: truncation of an unsigned value to its low 8 bits.
AsU8(x) == x % 256
\* `x >> 8` on a u16.
Shr8(x) == (x % 65536) \div 256
\* `x & 0xFF`.
AndFF(x) == x % 256
\* `x & 0xFC`: clear the two low bits of the low byte.
AndFC(x) == (x % 256) - (x % 4)

\* The address window encoded from the dimension instead of the last index.
WindowPayloadOffByOne(dim) ==
    LET last == dim % 65536
    IN  <<0, 0, AsU8(Shr8(last)), AsU8(AndFF(last))>>

\* The 4-byte payload of CASET / RASET for a panel dimension (u16).
WindowPayload(dim) ==
    LET last == (dim - 1) % 65536
    IN  <<0, 0, AsU8(Shr8(last)), AsU8(AndFF(last))>>

\* ------------------------------------------------------------ micro-ops
Pin(p, l) == [op |-> "pin", pin |-> p, level |-> l]
DelayMs(n) == [op |-> "delay", unit |-> "ms", n |-> n]
DelayNs(n) == [op |-> "delay", unit |-> "ns", n |-> n]
\* A bus write through self.spi (write_command / write_data).
WriteSelf(src) == [op |-> "write", via |-> "self", src |-> src]
\* A bus write through the `spi` the caller holds (start_frame).
WriteLocal(src) == [op |-> "write", via |-> "local", src |-> src]
Lit(bytes) == [kind |-> "lit", bytes |-> bytes]
BufRef(name) == [kind |-> "buf", name |-> name]
Alloc(name, b) == [op |-> "alloc", name |-> name, buf |-> b]
TakeSpi == [op |-> "take_spi"]
TakeCh == [op |-> "take_ch"]
TakeTransfer == [op |-> "take_transfer"]
Wait == [op |-> "wait"]
Start(name) == [op |-> "start", name |-> name]
Store == [op |-> "store"]
Ret(name) == [op |-> "ret", name |-> name]

\* The effects of one of the three functions that send on the bus, each
\* tagged with the function and its position in it.
Send(fn, ops) == [i \in 1..Len(ops) |-> ops[i] @@ [fn |-> fn, k |-> i]]

\* write_command asserting chip-select before it sets data/command.
WriteCommandOpsCsFirst(command) ==
    Send("write_command",
         << Pin("cs", Low), Pin("dc", Low), DelayNs(100),
            WriteSelf(Lit(<<command>>)),
            Pin("cs", High), DelayNs(100) >>)

\* write_command that never deselects the display.
WriteCommandOpsNoDeselect(command) ==
    Send("write_command",
         << Pin("dc", Low), Pin("cs", Low), DelayNs(100),
            WriteSelf(Lit(<<command>>)),
            DelayNs(100) >>)

\* display.rs write_command
WriteCommandOps(command) ==
    Send("write_command",
         << Pin("dc", Low), Pin("cs", Low), DelayNs(100),
            WriteSelf(Lit(<<command>>)),
            Pin("cs", High), DelayNs(100) >>)

\* display.rs write_data
WriteDataOps(src) ==
    Send("write_data",
         << Pin("dc", High), Pin("cs", Low), DelayNs(100),
            WriteSelf(src),
            Pin("cs", High), DelayNs(100) >>)

\* start_frame sending the column-window opcode instead of RAMWR.
StartFrameOpsWindow ==
    Send("start_frame",
         << Pin("dc", Low), Pin("cs", Low), DelayNs(100),
            WriteLocal(Lit(<<CaSet>>)),
            DelayNs(100), Pin("dc", High), DelayMs(1) >>)

\* display.rs start_frame
StartFrameOps ==
    Send("start_frame",
         << Pin("dc", Low), Pin("cs", Low), DelayNs(100),
            WriteLocal(Lit(<<RamWr>>)),
            DelayNs(100), Pin("dc", High), DelayMs(1) >>)

\* hard_reset whose last delay is 120 us instead of 120 ms.
HardResetOpsShort ==
    << Pin("rst", High), DelayMs(100),
       Pin("rst", Low), DelayMs(100),
       Pin("rst", High), DelayNs(120000) >>

\* display.rs hard_reset
HardResetOps ==
    << Pin("rst", High), DelayMs(100),
       Pin("rst", Low), DelayMs(100),
       Pin("rst", High), DelayMs(120) >>

\* init issuing sleep-out before the software reset.
InitResetOpsSleepFirst ==
    << Pin("cs", High) >>
    \o HardResetOps
    \o WriteCommandOps(SlpOut) \o << DelayMs(150) >>
    \o WriteCommandOps(SwReset) \o << DelayMs(150) >>

\* display.rs init, up to the sleep-out delay
InitResetOps ==
    << Pin("cs", High) >>
    \o HardResetOps
    \o WriteCommandOps(SwReset) \o << DelayMs(150) >>
    \o WriteCommandOps(SlpOut) \o << DelayMs(150) >>

\* display.rs init, the panel configuration
InitConfigOps ==
    WriteCommandOps(ColMod) \o WriteDataOps(Lit(<<6>>))
    \o WriteCommandOps(MadCtl) \o WriteDataOps(Lit(<<0>>))
    \o WriteCommandOps(InvOn)
    \o WriteCommandOps(CaSet) \o WriteDataOps(Lit(WindowPayload(WIDTH)))
    \o WriteCommandOps(RaSet) \o WriteDataOps(Lit(WindowPayload(HEIGHT)))
    \o WriteCommandOps(PvGamCtrl) \o WriteDataOps(Lit(PvGamma))
    \o WriteCommandOps(NvGamCtrl) \o WriteDataOps(Lit(NvGamma))

\* init switching the display on before the priming write.
InitPrimeOpsDispOnFirst ==
    << Alloc("buffer_a", "A"), Alloc("buffer_b", "B") >>
    \o WriteCommandOps(DispOn) \o << DelayMs(120) >>
    \o WriteCommandOps(RamWr) \o << DelayMs(1) >>
    \o WriteDataOps(BufRef("buffer_a")) \o << DelayMs(1) >>

\* display.rs init, the two static buffers and the priming write
InitPrimeOps ==
    << Alloc("buffer_a", "A"), Alloc("buffer_b", "B") >>
    \o WriteCommandOps(RamWr) \o << DelayMs(1) >>
    \o WriteDataOps(BufRef("buffer_a")) \o << DelayMs(1) >>
    \o WriteCommandOps(DispOn) \o << DelayMs(120) >>

\* init transferring buffer_b and returning buffer_a.
InitArmOpsSwapped ==
    << TakeSpi, TakeCh >>
    \o StartFrameOps
    \o << Start("buffer_b"), Store, Ret("buffer_a") >>

\* display.rs init, the first DMA transfer
InitArmOps ==
    << TakeSpi, TakeCh >>
    \o StartFrameOps
    \o << Start("buffer_a"), Store, Ret("buffer_b") >>

\* display.rs init
InitOps == InitResetOps \o InitConfigOps \o InitPrimeOps \o InitArmOps

\* swap_buffers deselecting the panel before it looks at the transfer.
SwapBuffersOpsDeselectFirst ==
    << Pin("cs", High), TakeTransfer, Wait, DelayMs(1) >>
    \o StartFrameOps
    \o << Start("ready_buffer"), Store, Ret("completed_buffer") >>

\* swap_buffers returning the buffer it has just handed to the engine.
SwapBuffersOpsRetReady ==
    << TakeTransfer, Wait, Pin("cs", High), DelayMs(1) >>
    \o StartFrameOps
    \o << Start("ready_buffer"), Store, Ret("ready_buffer") >>

\* swap_buffers restarting the completed buffer and returning the ready one.
SwapBuffersOpsRestart ==
    << TakeTransfer, Wait, Pin("cs", High), DelayMs(1) >>
    \o StartFrameOps
    \o << Start("completed_buffer"), Store, Ret("ready_buffer") >>

\* display.rs swap_buffers
SwapBuffersOps ==
    << TakeTransfer, Wait, Pin("cs", High), DelayMs(1) >>
    \o StartFrameOps
    \o << Start("ready_buffer"), Store, Ret("completed_buffer") >>

\* ----------------------------------------------------------------- state
\* The locals of the driver function that is running.
NoLocals ==
    [spi |-> FALSE, ch |-> FALSE, transfer |-> None,
     buffer_a |-> None, buffer_b |-> None,
     ready_buffer |-> None, completed_buffer |-> None]

\* The DMA channel hardware: the buffer of the transfer it was last given,
\* the number of words of it that it has moved, and the words it has pushed
\* to the bus.
HwIdle == [buf |-> None, pos |-> 0, out |-> <<>>]

Zeroes == [i \in 1..BufLen |-> 0]

\* A wait that returns without looking at the channel.
IsDoneAlways(h) == TRUE

\* single_buffer::Transfer::is_done
IsDone(h) == h.pos = BufLen

\* main.rs fill_frame_buffer: the blue byte of every pixel.
FillByte(fc) == AsU8(AndFC(fc))

\* State after main() has configured the pins and called new().
Init ==
    /\ proc = "boot"
    /\ pc = 0
    /\ cs = High
    /\ dc = Low
    /\ rst = High
    /\ spi = TRUE
    /\ dma_ch = TRUE
    /\ transfer = None
    /\ locals = NoLocals
    /\ hw = HwIdle
    /\ buffer = None
    /\ mem = [b \in Buffers |-> Zeroes]
    /\ allocated = {}
    /\ frame_count = 0
    /\ led = High
    /\ last_write_ok = TRUE
    /\ log = <<>>

Prog == IF proc = "init" THEN InitOps ELSE SwapBuffersOps
InDriver == proc \in {"init", "swap"} /\ pc \in 1..Len(Prog)
CurOp == Prog[pc]
At(kind) == InDriver /\ CurOp.op = kind
Record(e) == log' = Append(log, e)

\* --------------------------------------------------------------- actions
\* main.rs: display.init(&mut delay_for_app)
CallInit ==
    /\ proc = "boot"
    /\ proc' = "init"
    /\ pc' = 1
    /\ locals' = NoLocals
    /\ Record([ev |-> "call", fn |-> "init", buf |-> None])
    /\ UNCHANGED <<cs, dc, rst, spi, dma_ch, transfer, hw, buffer, mem,
                   allocated, frame_count, led, last_write_ok>>

\* set_high / set_low on one of the three control lines.
SetPin ==
    /\ At("pin")
    /\ cs' = IF CurOp.pin = "cs" THEN CurOp.level ELSE cs
    /\ dc' = IF CurOp.pin = "dc" THEN CurOp.level ELSE dc
    /\ rst' = IF CurOp.pin = "rst" THEN CurOp.level ELSE rst
    /\ pc' = pc + 1
    /\ Record([ev |-> "pin", pin |-> CurOp.pin, level |-> CurOp.level])
    /\ UNCHANGED <<proc, spi, dma_ch, transfer, locals, hw, buffer, mem,
                   allocated, frame_count, led, last_write_ok>>

\* delay.delay_ms / delay.delay_ns
Delay ==
    /\ At("delay")
    /\ pc' = pc + 1
    /\ Record([ev |-> "delay", unit |-> CurOp.unit, n |-> CurOp.n])
    /\ UNCHANGED <<proc, cs, dc, rst, spi, dma_ch, transfer, locals, hw,
                   buffer, mem, allocated, frame_count, led, last_write_ok>>

\* The bytes a write puts on the bus.
Bytes(src) == IF src.kind = "lit" THEN src.bytes ELSE mem[locals[src.name]]

\* A bus write whose failure makes the sending function return at once.
BusWriteBail ==
    /\ At("write")
    /\ IF CurOp.via = "self" THEN spi ELSE locals.spi
    /\ \E ok \in BOOLEAN :
         /\ last_write_ok' = ok
         /\ pc' = IF ok THEN pc + 1
                  ELSE pc + 1 + ((IF CurOp.fn = "start_frame" THEN 7 ELSE 6)
                                 - CurOp.k)
    /\ Record([ev |-> "write", dc |-> dc, cs |-> cs,
               data |-> Bytes(CurOp.src)])
    /\ UNCHANGED <<proc, cs, dc, rst, spi, dma_ch, transfer, locals, hw,
                   buffer, mem, allocated, frame_count, led>>

\* spi.write(..): synchronous; the Result is discarded (`let _ =`).
BusWrite ==
    /\ At("write")
    /\ IF CurOp.via = "self" THEN spi ELSE locals.spi
    /\ \E ok \in BOOLEAN : last_write_ok' = ok
    /\ pc' = pc + 1
    /\ Record([ev |-> "write", dc |-> dc, cs |-> cs,
               data |-> Bytes(CurOp.src)])
    /\ UNCHANGED <<proc, cs, dc, rst, spi, dma_ch, transfer, locals, hw,
                   buffer, mem, allocated, frame_count, led>>

\* singleton!(: [u8; BUFFER_SIZE] = [0u8; BUFFER_SIZE]).unwrap()
AllocBuffer ==
    /\ At("alloc")
    /\ CurOp.buf \notin allocated
    /\ allocated' = allocated \cup {CurOp.buf}
    /\ mem' = [mem EXCEPT ![CurOp.buf] = Zeroes]
    /\ locals' = [locals EXCEPT ![CurOp.name] = CurOp.buf]
    /\ pc' = pc + 1
    /\ UNCHANGED <<proc, cs, dc, rst, spi, dma_ch, transfer, hw, buffer,
                   frame_count, led, last_write_ok, log>>

\* init reading self.spi without taking it out of the field.
TakeSpiFieldKeep ==
    /\ At("take_spi")
    /\ spi
    /\ locals' = [locals EXCEPT !.spi = TRUE]
    /\ pc' = pc + 1
    /\ UNCHANGED <<proc, cs, dc, rst, spi, dma_ch, transfer, hw, buffer, mem,
                   allocated, frame_count, led, last_write_ok, log>>

\* let mut spi = self.spi.take().unwrap();
TakeSpiField ==
    /\ At("take_spi")
    /\ spi
    /\ spi' = FALSE
    /\ locals' = [locals EXCEPT !.spi = TRUE]
    /\ pc' = pc + 1
    /\ UNCHANGED <<proc, cs, dc, rst, dma_ch, transfer, hw, buffer, mem,
                   allocated, frame_count, led, last_write_ok, log>>

\* let ch = self.dma_ch.take().unwrap();
TakeChField ==
    /\ At("take_ch")
    /\ dma_ch
    /\ dma_ch' = FALSE
    /\ locals' = [locals EXCEPT !.ch = TRUE]
    /\ pc' = pc + 1
    /\ UNCHANGED <<proc, cs, dc, rst, spi, transfer, hw, buffer, mem,
                   allocated, frame_count, led, last_write_ok, log>>

\* swap_buffers reading self.transfer without taking it out of the field.
TakeTransferFieldKeep ==
    /\ At("take_transfer")
    /\ transfer # None
    /\ locals' = [locals EXCEPT !.transfer = transfer]
    /\ pc' = pc + 1
    /\ UNCHANGED <<proc, cs, dc, rst, spi, dma_ch, transfer, hw, buffer, mem,
                   allocated, frame_count, led, last_write_ok, log>>

\* let transfer = self.transfer.take().unwrap();
TakeTransferField ==
    /\ At("take_transfer")
    /\ transfer # None
    /\ locals' = [locals EXCEPT !.transfer = transfer]
    /\ transfer' = None
    /\ pc' = pc + 1
    /\ UNCHANGED <<proc, cs, dc, rst, spi, dma_ch, hw, buffer, mem,
                   allocated, frame_count, led, last_write_ok, log>>

\* let (ch, completed_buffer, mut spi) = transfer.wait();
\* wait() spins until the channel is done, then gives the parts back.
WaitTransfer ==
    /\ At("wait")
    /\ locals.transfer # None
    /\ IsDone(hw)
    /\ locals' = [locals EXCEPT !.transfer = None, !.ch = TRUE, !.spi = TRUE,
                                !.completed_buffer = locals.transfer]
    /\ pc' = pc + 1
    /\ Record([ev |-> "wait", buf |-> locals.transfer, moved |-> hw.pos])
    /\ UNCHANGED <<proc, cs, dc, rst, spi, dma_ch, transfer, hw, buffer, mem,
                   allocated, frame_count, led, last_write_ok>>

\* let transfer = single_buffer::Config::new(ch, <buffer>, spi).start();
\* The channel and the bus move into the transfer.  The local that named the
\* buffer keeps its value here: that it is not used again is a fact about
\* the function's text, which the op sequences state.
StartTransfer ==
    /\ At("start")
    /\ locals.ch /\ locals.spi /\ locals[CurOp.name] # None
    /\ locals' = [locals EXCEPT !.ch = FALSE, !.spi = FALSE,
                                !.transfer = locals[CurOp.name]]
    /\ hw' = [buf |-> locals[CurOp.name], pos |-> 0, out |-> <<>>]
    /\ pc' = pc + 1
    /\ Record([ev |-> "start", buf |-> locals[CurOp.name]])
    /\ UNCHANGED <<proc, cs, dc, rst, spi, dma_ch, transfer, buffer, mem,
                   allocated, frame_count, led, last_write_ok>>

\* self.transfer = Some(transfer);
StoreTransfer ==
    /\ At("store")
    /\ transfer' = locals.transfer
    /\ locals' = [locals EXCEPT !.transfer = None]
    /\ pc' = pc + 1
    /\ UNCHANGED <<proc, cs, dc, rst, spi, dma_ch, hw, buffer, mem,
                   allocated, frame_count, led, last_write_ok, log>>

\* A return that hands the buffer back cleared.
ReturnCleared ==
    /\ At("ret")
    /\ buffer' = locals[CurOp.name]
    /\ mem' = [mem EXCEPT ![locals[CurOp.name]] = Zeroes]
    /\ locals' = NoLocals
    /\ Record([ev |-> "ret", fn |-> proc, buf |-> locals[CurOp.name]])
    /\ proc' = IF proc = "init" THEN "fill" ELSE "tail"
    /\ pc' = 0
    /\ UNCHANGED <<cs, dc, rst, spi, dma_ch, transfer, hw, allocated,
                   frame_count, led, last_write_ok>>

\* The function returns a buffer to main, which stores it in `buffer`.
Return ==
    /\ At("ret")
    /\ buffer' = locals[CurOp.name]
    /\ locals' = NoLocals
    /\ Record([ev |-> "ret", fn |-> proc, buf |-> locals[CurOp.name]])
    /\ proc' = IF proc = "init" THEN "fill" ELSE "tail"
    /\ pc' = 0
    /\ UNCHANGED <<cs, dc, rst, spi, dma_ch, transfer, hw, mem, allocated,
                   frame_count, led, last_write_ok>>

\* main.rs fill_frame_buffer: one byte of the buffer main holds.
FillStep ==
    /\ proc = "fill"
    /\ pc < BufLen
    /\ mem' = [mem EXCEPT ![buffer][pc + 1] = FillByte(frame_count)]
    /\ pc' = pc + 1
    /\ UNCHANGED <<proc, cs, dc, rst, spi, dma_ch, transfer, locals, hw,
                   buffer, allocated, frame_count, led, last_write_ok, log>>

\* main.rs: buffer = display.swap_buffers(&mut delay_for_app, buffer)
CallSwap ==
    /\ proc = "fill"
    /\ pc = BufLen
    /\ frame_count < MaxFrames
    /\ proc' = "swap"
    /\ pc' = 1
    /\ locals' = [NoLocals EXCEPT !.ready_buffer = buffer]
    /\ buffer' = None
    /\ Record([ev |-> "call", fn |-> "swap", buf |-> buffer])
    /\ UNCHANGED <<cs, dc, rst, spi, dma_ch, transfer, hw, mem, allocated,
                   frame_count, led, last_write_ok>>

\* main.rs: toggle the LED every 30th frame; frame_count += 1
LoopTail ==
    /\ proc = "tail"
    /\ led' = IF frame_count % 30 = 0 THEN 1 - led ELSE led
    /\ frame_count' = frame_count + 1
    /\ proc' = "fill"
    /\ pc' = 0
    /\ UNCHANGED <<cs, dc, rst, spi, dma_ch, transfer, locals, hw, buffer,
                   mem, allocated, last_write_ok, log>>

\* The DMA engine moves the next word of the in-flight transfer to the bus.
DmaStep ==
    /\ hw.buf # None
    /\ hw.pos < BufLen
    /\ hw' = [hw EXCEPT !.pos = hw.pos + 1,
                        !.out = Append(hw.out, mem[hw.buf][hw.pos + 1])]
    /\ UNCHANGED <<proc, pc, cs, dc, rst, spi, dma_ch, transfer, locals,
                   buffer, mem, allocated, frame_count, led, last_write_ok,
                   log>>

Next ==
    \/ CallInit
    \/ SetPin
    \/ Delay
    \/ BusWrite
    \/ AllocBuffer
    \/ TakeSpiField
    \/ TakeChField
    \/ TakeTransferField
    \/ WaitTransfer
    \/ StartTransfer
    \/ StoreTransfer
    \/ Return
    \/ FillStep
    \/ CallSwap
    \/ LoopTail
    \/ DmaStep

Spec == Init /\ [][Next]_vars

\* The steps of the one thread of control (main and the driver calls it
\* makes); DmaStep is the hardware running beside it.
Cpu ==
    \/ CallInit
    \/ SetPin
    \/ Delay
    \/ BusWrite
    \/ AllocBuffer
    \/ TakeSpiField
    \/ TakeChField
    \/ TakeTransferField
    \/ WaitTransfer
    \/ StartTransfer
    \/ StoreTransfer
    \/ Return
    \/ FillStep
    \/ CallSwap
    \/ LoopTail

\* The processor keeps executing whatever instruction is enabled, and a
\* started DMA transfer keeps moving bytes until it is complete.
FairSpec == Spec /\ WF_vars(Cpu) /\ WF_vars(DmaStep)

\* ------------------------------------------- calls main.rs does not make
\* The public functions called in an order other than main's: swap_buffers
\* on the driver new() returned, and init on a driver that is initialized.
\* A buffer of the caller's own, passed to swap_buffers before init() has
\* handed one out.
OwnBuffer == "X"

\* display.swap_buffers(&mut delay, own_buffer) before display.init(..)
CallSwapEarly ==
    /\ proc = "boot"
    /\ proc' = "swap"
    /\ pc' = 1
    /\ locals' = [NoLocals EXCEPT !.ready_buffer = OwnBuffer]
    /\ Record([ev |-> "call", fn |-> "swap", buf |-> OwnBuffer])
    /\ UNCHANGED <<cs, dc, rst, spi, dma_ch, transfer, hw, buffer, mem,
                   allocated, frame_count, led, last_write_ok>>

\* display.init(&mut delay) once more, between two calls of main's loop;
\* main keeps the buffer it holds.
CallInitAgain ==
    /\ \/ proc = "tail"
       \/ proc = "fill" /\ pc \in {0, BufLen}
    /\ proc' = "init"
    /\ pc' = 1
    /\ locals' = NoLocals
    /\ Record([ev |-> "call", fn |-> "init", buf |-> None])
    /\ UNCHANGED <<cs, dc, rst, spi, dma_ch, transfer, hw, buffer, mem,
                   allocated, frame_count, led, last_write_ok>>

\* The unwrap() of the current statement finds None: Option::take() of an
\* empty field, as_mut() of the empty spi field, singleton!() of a static
\* that is already taken.
UnwrapFails ==
    \/ At("take_transfer") /\ transfer = None
    \/ At("take_spi") /\ ~spi
    \/ At("take_ch") /\ ~dma_ch
    \/ At("write") /\ CurOp.via = "self" /\ ~spi
    \/ At("alloc") /\ CurOp.buf \in allocated

\* panic_halt: the panic handler loops forever; the DMA channel runs on.
Panic ==
    /\ UnwrapFails
    /\ proc' = "halt"
    /\ pc' = 0
    /\ Record([ev |-> "panic", fn |-> proc, at |-> pc])
    /\ UNCHANGED <<cs, dc, rst, spi, dma_ch, transfer, locals, hw, buffer,
                   mem, allocated, frame_count, led, last_write_ok>>

ApiNext ==
    \/ Next
    \/ CallSwapEarly
    \/ CallInitAgain
    \/ Panic

ApiSpec == Init /\ [][ApiNext]_vars

TypeOK ==
    /\ proc \in {"boot", "init", "fill", "swap", "tail", "halt"}
    /\ cs \in {Low, High} /\ dc \in {Low, High} /\ rst \in {Low, High}
    /\ spi \in BOOLEAN /\ dma_ch \in BOOLEAN
    /\ transfer \in Buffers \cup {None}
    /\ buffer \in Buffers \cup {None}
    /\ hw.pos \in 0..BufLen
    /\ allocated \subseteq Buffers

\* ------------------------------------------------------- the recorded log
LogIdx == 1..Len(log)
Last == log[Len(log)]
IsPin(e, p, l) == e.ev = "pin" /\ e.pin = p /\ e.level = l
IsCommand(e) == e.ev = "write" /\ e.dc = Low
\* The indices of the log entries that satisfy P, in order.
IdxSeq(P(_)) == SelectSeq([i \in LogIdx |-> i], LAMBDA i : P(log[i]))
\* The milliseconds of delay requested strictly between entries i and j.
RECURSIVE MsFrom(_, _)
MsFrom(i, j) ==
    IF i >= j THEN 0
    ELSE (IF log[i].ev = "delay" /\ log[i].unit = "ms" THEN log[i].n ELSE 0)
         + MsFrom(i + 1, j)
MsBetween(i, j) == MsFrom(i + 1, j)

\* The transfer objects the driver holds: its field and the running
\* function's local.
TransferObjects ==
    (IF transfer # None THEN 1 ELSE 0)
    + (IF locals.transfer # None THEN 1 ELSE 0)
\* The channel still has words of its transfer to move.
Unfinished(h) == h.buf # None /\ h.pos < BufLen
\* This step starts a DMA transfer.
StartsTransfer ==
    Len(log') = Len(log) + 1 /\ log'[Len(log')].ev = "start"
\* The driver is not running: main holds the CPU between two calls.
BetweenCalls == proc \in {"fill", "tail"}
InitReturned == Len(log) > 0 /\ Last.ev = "ret" /\ Last.fn = "init"
SwapReturned == Len(log) > 0 /\ Last.ev = "ret" /\ Last.fn = "swap"
StartIdx == IdxSeq(LAMBDA e : e.ev = "start")
WaitIdx == IdxSeq(LAMBDA e : e.ev = "wait")
SwapCallIdx == IdxSeq(LAMBDA e : e.ev = "call" /\ e.fn = "swap")
SwapRetIdx == IdxSeq(LAMBDA e : e.ev = "ret" /\ e.fn = "swap")

\* ------------------------------------------------------------------ C1
\* C1: at most one DMA transfer is in flight: the driver never holds more
\* than one transfer object, and every step that starts a transfer is taken
\* when the channel has no unfinished transfer.
C1_AtMostOneTransfer ==
    /\ [](TransferObjects <= 1)
    /\ [][StartsTransfer => ~Unfinished(hw)]_vars

\* A second transfer has been started and is the only one held.
C1_Witness ==
    /\ Len(StartIdx) = 2
    /\ TransferObjects = 1
    /\ proc = "swap"

\* ------------------------------------------------------------------ C2
EngineOwned == {transfer, locals.transfer} \ {None}
CallerOwned == {buffer} \ {None}

\* C2: after init() and after every swap_buffers(), one of the two static
\* buffers is owned by the engine (it is the buffer of the in-flight
\* transfer, the one the DMA channel reads) and the other by the caller;
\* the fill only writes the buffer the DMA channel does not read.
C2_ExclusiveOwnership ==
    BetweenCalls =>
        /\ Cardinality(EngineOwned) = 1
        /\ Cardinality(CallerOwned) = 1
        /\ EngineOwned \cap CallerOwned = {}
        /\ EngineOwned \cup CallerOwned = Buffers
        /\ EngineOwned = {hw.buf}
        /\ buffer # hw.buf

\* The fill is half-way through a buffer while the DMA channel is half-way
\* through the other one, after two swaps.
C2_Witness ==
    /\ proc = "fill" /\ pc = 1
    /\ frame_count = 2
    /\ hw.pos = 1

\* ------------------------------------------------------------------ C3
SwapResults == [i \in 1..Len(SwapRetIdx) |-> log[SwapRetIdx[i]].buf]

\* C3: the results of swap_buffers() alternate: each is one of the two
\* static buffers, the first is A, and no two consecutive ones are equal.
C3_OwnershipAlternates ==
    \A i \in 1..Len(SwapResults) :
        /\ SwapResults[i] \in Buffers
        /\ SwapResults[i] = (IF i % 2 = 1 THEN "A" ELSE "B")
        /\ i > 1 => SwapResults[i] # SwapResults[i - 1]

\* Three swaps have returned.
C3_Witness == Len(SwapResults) = 3 /\ proc = "tail"

\* ------------------------------------------------------------------ C4
\* The wait and start entries of the call of swap_buffers() that returned
\* at entry r of the log.
CallOf(r) ==
    CHOOSE c \in 1..r :
        /\ log[c].ev = "call"
        /\ \A m \in (c + 1)..r : log[m].ev # "call"
WaitsIn(r) == {i \in CallOf(r)..r : log[i].ev = "wait"}
StartsIn(r) == {i \in CallOf(r)..r : log[i].ev = "start"}

\* C4: every swap_buffers() call waits exactly once and starts exactly one
\* transfer, the wait first; every wait is for the transfer started last and
\* returns when the channel has moved all of it, so starts and waits
\* alternate over the whole run.
C4_WaitThenStart ==
    /\ \A n \in 1..Len(SwapRetIdx) :
         LET r == SwapRetIdx[n]
         IN  /\ Cardinality(WaitsIn(r)) = 1
             /\ Cardinality(StartsIn(r)) = 1
             /\ \A w \in WaitsIn(r) : \A s \in StartsIn(r) : w < s
    /\ Len(WaitIdx) \in {Len(StartIdx) - 1, Len(StartIdx)}
    /\ \A n \in 1..Len(WaitIdx) :
         /\ StartIdx[n] < WaitIdx[n]
         /\ n < Len(StartIdx) => WaitIdx[n] < StartIdx[n + 1]
         /\ log[WaitIdx[n]].buf = log[StartIdx[n]].buf
         /\ log[WaitIdx[n]].moved = BufLen

\* The second call of swap_buffers() has waited and started its transfer.
C4_Witness ==
    /\ Len(WaitIdx) = 2
    /\ Len(StartIdx) = 3
    /\ proc = "swap"

\* ------------------------------------------------------------------ C5
\* C5: when init() returns, exactly one transfer is in flight, it carries
\* FrameBuffer A, and FrameBuffer B is the buffer given to the caller.
C5_InitEndsInFlightA ==
    InitReturned =>
        /\ transfer = "A"
        /\ locals.transfer = None
        /\ hw.buf = "A"
        /\ buffer = "B"
        /\ Len(StartIdx) = 1
        /\ log[StartIdx[1]].buf = "A"
        /\ Len(WaitIdx) = 0

\* init() has just returned.
C5_Witness == InitReturned /\ proc = "fill" /\ pc = 0

\* ------------------------------------------------------------------ C6
\* C6: when swap_buffers(ready_buffer) returns, the buffer it returns is the
\* one its wait reclaimed after the channel had moved all of it, the channel
\* does not read it, and the one transfer in flight carries ready_buffer.
C6_SwapPostcondition ==
    SwapReturned =>
        LET ready == log[CallOf(Len(log))].buf
            w == log[WaitIdx[Len(WaitIdx)]]
        IN  /\ buffer = w.buf
            /\ w.moved = BufLen
            /\ CallOf(Len(log)) < WaitIdx[Len(WaitIdx)]
            /\ hw.buf # buffer
            /\ hw.buf = ready
            /\ transfer = ready
            /\ TransferObjects = 1

\* swap_buffers() has just returned and the new transfer is still running.
C6_Witness == SwapReturned /\ proc = "tail" /\ Unfinished(hw)

\* ------------------------------------------------------------------ C7
CsLowIdx == {i \in LogIdx : IsPin(log[i], "cs", Low)}
CsHighAfter(i) == {j \in LogIdx : j > i /\ IsPin(log[j], "cs", High)}
Closed(i) == CsHighAfter(i) # {}
CloseIdx(i) == CHOOSE j \in CsHighAfter(i) : \A m \in CsHighAfter(i) : j <= m
\* The bus transactions while chip-select is low from entry i on.
Transactions(i) ==
    SelectSeq(SubSeq(log, i + 1, CloseIdx(i) - 1),
              LAMBDA e : e.ev \in {"write", "start"})
DcSetJustBefore(i) == i > 1 /\ log[i - 1].ev = "pin" /\ log[i - 1].pin = "dc"

\* C7 as stated: every chip-select assertion follows the setting of
\* data/command and is followed by a deassertion around exactly one bus
\* transaction, for write_command, write_data and start_frame alike.
C7_OneTransactionPerSelect ==
    \A i \in CsLowIdx :
        /\ DcSetJustBefore(i)
        /\ Closed(i) => Len(Transactions(i)) = 1

\* C7 as the code has it: every bus write happens with chip-select low and
\* every assertion follows the setting of data/command.  An assertion by
\* write_command or write_data is closed around exactly one bus write.  An
\* assertion by start_frame is closed only by the next swap_buffers(), after
\* its wait, and spans two transactions: the RAMWR command write and, with
\* data/command raised in between, the DMA transfer of a frame.
C7_Framing ==
    /\ \A i \in LogIdx : log[i].ev = "write" => log[i].cs = Low
    /\ \A i \in CsLowIdx :
        /\ DcSetJustBefore(i)
        /\ Closed(i) =>
             LET t == Transactions(i)
                 inside == SubSeq(log, i + 1, CloseIdx(i) - 1)
             IN  \/ /\ Len(t) = 1
                    /\ t[1].ev = "write"
                    /\ \A m \in 1..Len(inside) : inside[m].ev # "pin"
                 \/ /\ Len(t) = 2
                    /\ IsCommand(t[1]) /\ t[1].data = <<RamWr>>
                    /\ t[2].ev = "start"
                    /\ \E a, b, c, d \in 1..Len(inside) :
                         /\ a < b /\ b < c /\ c < d
                         /\ inside[a].ev = "write"
                         /\ IsPin(inside[b], "dc", High)
                         /\ inside[c].ev = "start"
                         /\ inside[d].ev = "wait"
                         /\ inside[d].buf = inside[c].buf

\* The first swap_buffers() has closed the chip-select assertion that init's
\* start_frame opened, and is about to start its own transfer.
C7_Witness ==
    /\ \E i \in CsLowIdx : Closed(i) /\ Len(Transactions(i)) = 2
    /\ proc = "swap"
    /\ CurOp.op = "start"

\* ------------------------------------------------------------------ C8
\* The CPU is inside write_command, write_data or start_frame.
InSend == InDriver /\ "k" \in DOMAIN CurOp /\ CurOp.k > 1
\* start_frame has returned and the transfer is about to be started.
FrameArming == InDriver /\ CurOp.op = "start"
\* A transfer has been started and swap_buffers() has not yet reclaimed it
\* and released chip-select.
Unreclaimed ==
    \/ TransferObjects = 1
    \/ /\ InDriver /\ proc = "swap"
       /\ locals.completed_buffer # None
       /\ CurOp = Pin("cs", High)

\* C8 as stated: chip-select is low only while a command phase or a data
\* phase (a synchronous send, or a DMA transfer that has words left to move)
\* is in progress; otherwise it is high.
C8_SelectOnlyInPhase ==
    cs = Low => InSend \/ FrameArming \/ Unfinished(hw)

\* C8 as the code has it: chip-select is low only inside a send or from
\* start_frame until the next swap_buffers() has waited for the transfer and
\* driven it high; between two calls of the driver it is low and
\* data/command is high, whether or not the DMA transfer has completed.
C8_SelectUntilReclaimed ==
    /\ cs = Low => InSend \/ FrameArming \/ Unreclaimed
    /\ BetweenCalls => cs = Low /\ dc = High

\* The DMA transfer has completed, main is filling the other buffer, and
\* chip-select is still low.
C8_Witness ==
    /\ proc = "fill"
    /\ hw.buf # None /\ hw.pos = BufLen
    /\ cs = Low

\* ------------------------------------------------------------------ C9
\* What init() must put on the bus: the level of data/command, the number
\* of bytes, and the byte itself where the sequence fixes it (-1 elsewhere).
ExpectedInitBus ==
    << <<Low, 1, 1>>, <<Low, 1, 17>>,
       <<Low, 1, 58>>, <<High, 1, 6>>,
       <<Low, 1, 54>>, <<High, 1, 0>>,
       <<Low, 1, 33>>,
       <<Low, 1, 42>>, <<High, 4, -1>>,
       <<Low, 1, 43>>, <<High, 4, -1>>,
       <<Low, 1, 224>>, <<High, 14, -1>>,
       <<Low, 1, 225>>, <<High, 14, -1>>,
       <<Low, 1, 44>>, <<High, BufLen, 0>>,
       <<Low, 1, 41>>,
       <<Low, 1, 44>> >>

\* The bus writes of init(): those before its return.
InitWriteIdx ==
    IdxSeq(LAMBDA e : e.ev = "write")
InitEnd ==
    LET r == IdxSeq(LAMBDA e : e.ev = "ret" /\ e.fn = "init")
    IN  IF Len(r) = 0 THEN Len(log) + 1 ELSE r[1]
InitWrites ==
    SelectSeq(InitWriteIdx, LAMBDA i : i < InitEnd)
RstIdx == IdxSeq(LAMBDA e : e.ev = "pin" /\ e.pin = "rst")

\* C9: the writes of init() are, in order and with nothing else in between,
\* the opcodes and payloads of the bring-up sequence, each sent with
\* chip-select low, all after the reset pulse high, low, high; init() does
\* not return before the last of them.
C9_InitOpcodeSequence ==
    /\ Len(InitWrites) <= Len(ExpectedInitBus)
    /\ InitEnd <= Len(log) => Len(InitWrites) = Len(ExpectedInitBus)
    /\ \A n \in 1..Len(InitWrites) :
         LET e == log[InitWrites[n]]
             x == ExpectedInitBus[n]
         IN  /\ e.cs = Low
             /\ e.dc = x[1]
             /\ Len(e.data) = x[2]
             /\ x[3] >= 0 => \A k \in 1..Len(e.data) : e.data[k] = x[3]
    /\ Len(InitWrites) > 0 =>
         /\ Len(RstIdx) = 3
         /\ RstIdx[3] < InitWrites[1]
         /\ log[RstIdx[1]].level = High
         /\ log[RstIdx[2]].level = Low
         /\ log[RstIdx[3]].level = High

\* init() has returned after its nineteen bus writes.
C9_Witness ==
    /\ InitEnd <= Len(log)
    /\ Len(InitWrites) = 19
    /\ proc = "fill" /\ pc = 1 /\ frame_count = 0

\* ----------------------------------------------------------------- C10
CommandIdx == IdxSeq(IsCommand)
DispOnIdx == IdxSeq(LAMBDA e : IsCommand(e) /\ e.data = <<DispOn>>)

\* C10: the delays requested between the steps of the bring-up are at least
\* 100 ms from RST high to RST low, 100 ms from RST low to RST high, 120 ms
\* from there to SWRESET, 150 ms from SWRESET to SLPOUT, 150 ms from SLPOUT
\* to COLMOD, and 120 ms from DISPON to the start of the first transfer.
C10_MinimumDelays ==
    /\ Len(RstIdx) >= 2 =>
         /\ IsPin(log[RstIdx[1]], "rst", High)
         /\ IsPin(log[RstIdx[2]], "rst", Low)
         /\ MsBetween(RstIdx[1], RstIdx[2]) >= 100
    /\ Len(RstIdx) >= 3 =>
         /\ IsPin(log[RstIdx[3]], "rst", High)
         /\ MsBetween(RstIdx[2], RstIdx[3]) >= 100
    /\ Len(CommandIdx) >= 1 =>
         /\ Len(RstIdx) = 3
         /\ log[CommandIdx[1]].data = <<SwReset>>
         /\ MsBetween(RstIdx[3], CommandIdx[1]) >= 120
    /\ Len(CommandIdx) >= 2 =>
         /\ log[CommandIdx[2]].data = <<SlpOut>>
         /\ MsBetween(CommandIdx[1], CommandIdx[2]) >= 150
    /\ Len(CommandIdx) >= 3 =>
         /\ log[CommandIdx[3]].data = <<ColMod>>
         /\ MsBetween(CommandIdx[2], CommandIdx[3]) >= 150
    /\ Len(StartIdx) >= 1 =>
         /\ Len(DispOnIdx) = 1
         /\ DispOnIdx[1] < StartIdx[1]
         /\ MsBetween(DispOnIdx[1], StartIdx[1]) >= 120

\* init() has started the first transfer and not yet stored it.
C10_Witness ==
    /\ proc = "init"
    /\ Len(StartIdx) = 1
    /\ locals.transfer = "A"

\* ----------------------------------------------------------------- C11
\* The effects of a function that the log records.
Logged(ops) ==
    SelectSeq(ops, LAMBDA o :
        o.op \in {"pin", "delay", "write", "wait", "start", "ret"})
\* Log entry e is the record of effect o.
Matches(o, e) ==
    /\ e.ev = o.op
    /\ o.op = "pin" => e.pin = o.pin /\ e.level = o.level
    /\ o.op = "delay" => e.unit = o.unit /\ e.n = o.n
    /\ (o.op = "write" /\ o.src.kind = "lit") => e.data = o.src.bytes
LastCallIdx == CallOf(Len(log))
\* What the running (or last) call has recorded, and the effects of its
\* function that lie before the program counter.
Segment == SubSeq(log, LastCallIdx + 1, Len(log))
Executed ==
    IF InDriver THEN Logged(SubSeq(Prog, 1, pc - 1))
    ELSE Logged(IF log[LastCallIdx].fn = "init" THEN InitOps
                ELSE SwapBuffersOps)

\* The running call has recorded exactly the effects before its program
\* counter, a returned call all of them; no call leaves its function early;
\* between calls one buffer is with the engine and the other with the caller.
AttemptsFollowText ==
    /\ proc \in {"init", "swap"} => InDriver
    /\ Len(log) > 0 =>
         LET seg == Segment
             exe == Executed
         IN  /\ Len(seg) = Len(exe)
             /\ \A i \in 1..Len(seg) : Matches(exe[i], seg[i])
    /\ BetweenCalls =>
         /\ transfer \in Buffers /\ buffer \in Buffers
         /\ transfer # buffer
         /\ locals = NoLocals

\* C11: whichever bus writes fail, init() and swap_buffers() attempt the
\* effects of their text, one after the other and to the end, the ownership
\* of the two buffers between calls is the same, and a call in which a write
\* has failed still returns.
C11_WriteFailuresIgnored ==
    /\ []AttemptsFollowText
    /\ (InDriver /\ ~last_write_ok) ~> BetweenCalls

\* swap_buffers() has returned although its RAMWR write failed.
C11_Witness ==
    /\ ~last_write_ok
    /\ SwapReturned
    /\ proc = "tail"
    /\ frame_count = 1

\* ----------------------------------------------------------------- C12
\* The running call is at transfer.wait() and the channel is not done.
BlockedInWait == At("wait") /\ hw.pos < BufLen

\* C12: inside a driver call the processor can take its next step at every
\* position except at swap_buffers()'s wait() on a transfer that is not
\* complete, where it can take none (no timeout, no cancellation); when
\* every started transfer completes, every swap_buffers() call returns and
\* so does init(), and main's loop has no state without a successor short
\* of the frame bound of this model.
C12_BlocksUntilRetired ==
    /\ [](InDriver => ((ENABLED Cpu) <=> ~BlockedInWait))
    /\ [](BlockedInWait => proc = "swap")
    /\ (proc = "swap") ~> (proc = "tail")
    /\ (proc = "init") ~> (proc = "fill")
    /\ []((~ENABLED Next) =>
            (proc = "fill" /\ pc = BufLen /\ frame_count = MaxFrames))

\* swap_buffers() is blocked in wait() while the DMA channel is still moving
\* the previous buffer.
C12_Witness ==
    /\ BlockedInWait
    /\ hw.pos > 0
    /\ frame_count = 2

\* ----------------------------------------------------------------- C13
\* The data written by the first write after the command write of opcode
\* op, <<>> when there is none yet.
PayloadAfter(op) ==
    LET c == IdxSeq(LAMBDA e : IsCommand(e) /\ e.data = <<op>>)
        w == IF Len(c) = 0 THEN <<>>
             ELSE SelectSeq(IdxSeq(LAMBDA e : e.ev = "write"),
                            LAMBDA i : i > c[1])
    IN  IF Len(w) = 0 THEN <<>>
        ELSE IF log[w[1]].dc = High THEN log[w[1]].data ELSE <<>>
\* The 16-bit value a payload's last two bytes stand for.
Decode16(p) == p[3] * 256 + p[4]

\* C13: the data written after CASET is 00 00 00 EF and the data written
\* after RASET is 00 00 01 3F: the start is 0, the end is the big-endian
\* 16-bit encoding of WIDTH-1 = 239 and of HEIGHT-1 = 319, each byte within
\* 0..255 and the encoded value equal to the last index (no underflow, no
\* truncation).
C13_WindowPayloads ==
    /\ WIDTH = 240 /\ HEIGHT = 320
    /\ WIDTH - 1 \in 0..65535 /\ HEIGHT - 1 \in 0..65535
    /\ \A op \in {CaSet, RaSet} :
         LET p == PayloadAfter(op)
             dim == IF op = CaSet THEN WIDTH ELSE HEIGHT
         IN  p # <<>> =>
               /\ Len(p) = 4
               /\ \A k \in 1..4 : p[k] \in 0..255
               /\ p[1] = 0 /\ p[2] = 0
               /\ Decode16(p) = dim - 1
               /\ p = IF op = CaSet THEN <<0, 0, 0, 239>>
                      ELSE <<0, 0, 1, 63>>

\* init() has written both address windows.
C13_Witness ==
    /\ PayloadAfter(CaSet) # <<>>
    /\ PayloadAfter(RaSet) # <<>>
    /\ proc = "init"

\* ----------------------------------------------------------------- C14
\* What main has put in the buffer of the n-th transfer: init()'s transfer
\* carries the zeroed buffer A, the transfer of the k-th swap_buffers() the
\* fill of frame k-1.
Pattern(n) ==
    IF n <= 1 THEN Zeroes
    ELSE [i \in 1..BufLen |-> FillByte(n - 2)]

\* C14: the driver never writes a frame buffer. A buffer's bytes change only
\* in main's fill of the buffer main holds; the bytes the DMA channel has
\* moved for the transfer in flight are the bytes main put in the buffer it
\* passed, and the buffer swap_buffers() returns holds what it held when its
\* transfer was started.
C14_BuffersUntouched ==
    /\ [](hw.buf \in EngineOwned =>
            /\ mem[hw.buf] = Pattern(Len(StartIdx))
            /\ hw.out = SubSeq(mem[hw.buf], 1, hw.pos))
    /\ [](SwapReturned /\ proc = "tail" =>
            mem[buffer] = Pattern(Len(StartIdx) - 1))
    /\ [][\A b \in allocated :
            mem'[b] # mem[b] =>
              proc = "fill" /\ proc' = "fill" /\ buffer = b]_vars

\* The sixth swap_buffers() has returned the buffer filled in frame 4, still
\* holding that fill, while the channel has moved the fill of frame 5.
C14_Witness ==
    /\ SwapReturned /\ proc = "tail"
    /\ mem[buffer] = [i \in 1..BufLen |-> 4]
    /\ hw.pos = BufLen
    /\ hw.out = mem[hw.buf]
    /\ frame_count = 5

\* ----------------------------------------------------------------- C15
WriteIdx == IdxSeq(LAMBDA e : e.ev = "write")
\* The indices of the writes before log entry i, in order.
WritesBefore(i) == SelectSeq(WriteIdx, LAMBDA k : k < i)
IsRamWr(e) == IsCommand(e) /\ e.data = <<RamWr>>
\* A data write of a whole frame buffer of zeroes.
IsZeroFrame(e) == e.ev = "write" /\ e.dc = High /\ e.data = Zeroes

\* C15: when init() writes DISPON, the two writes before it are the RAMWR
\* opcode and then the whole all-zero frame buffer, written synchronously,
\* and no transfer has been started; when the first DMA transfer is started,
\* DISPON has been written, the last write before the start is a RAMWR
\* opcode written after DISPON, and the transfer carries buffer A, all zero.
C15_PrimingOrder ==
    /\ Len(DispOnIdx) > 0 =>
         LET d == DispOnIdx[1]
             w == WritesBefore(d)
         IN  /\ Len(w) >= 2
             /\ IsRamWr(log[w[Len(w) - 1]])
             /\ IsZeroFrame(log[w[Len(w)]])
             /\ Len(SelectSeq(w, LAMBDA k : IsZeroFrame(log[k]))) = 1
             /\ \A k \in 1..d : log[k].ev # "start"
    /\ Len(StartIdx) > 0 =>
         LET s == StartIdx[1]
             w == WritesBefore(s)
         IN  /\ Len(DispOnIdx) = 1
             /\ DispOnIdx[1] < s
             /\ IsRamWr(log[w[Len(w)]])
             /\ w[Len(w)] > DispOnIdx[1]
             /\ w[Len(w) - 1] = DispOnIdx[1]
             /\ log[s].buf = "A"
    /\ Len(StartIdx) = 1 =>
         /\ hw.buf = "A"
         /\ mem["A"] = Zeroes
         /\ \A k \in 1..Len(hw.out) : hw.out[k] = 0

\* init() has started the first transfer and not yet stored it.
C15_Witness ==
    /\ proc = "init"
    /\ At("store")
    /\ Len(StartIdx) = 1
    /\ Len(DispOnIdx) = 1

\* ----------------------------------------------------------------- C16
\* How many times opcode op has been written as a command.
Sent(op) == Len(IdxSeq(LAMBDA e : IsCommand(e) /\ e.data = <<op>>))
\* The opcodes that set the address window, the pixel format, the
\* orientation and the inversion.
ConfigOpcodes == {CaSet, RaSet, ColMod, MadCtl, InvOn}
\* The writes among w that lie between log entries lo and hi.
WritesWithin(w, lo, hi) == SelectSeq(w, LAMBDA k : lo < k /\ k < hi)

\* C16: CASET and RASET (and COLMOD, MADCTL, INVON) are each written at most
\* once, inside init(), and exactly once when init() has returned; every
\* write after init() is the RAMWR opcode as a command, and a swap_buffers()
\* call makes one such write, before it starts its transfer.
C16_ConfigOnlyInInit ==
    LET end == InitEnd
        w == WriteIdx
        c == SwapCallIdx
        s == StartIdx
    IN  /\ \A op \in ConfigOpcodes :
             /\ Sent(op) <= 1
             /\ Len(log) >= end => Sent(op) = 1
        /\ \A k \in 1..Len(w) :
             w[k] > end => IsRamWr(log[w[k]])
        /\ \A n \in 1..Len(c) :
             LET hi == IF n < Len(c) THEN c[n + 1] ELSE Len(log) + 1
                 sw == WritesWithin(w, c[n], hi)
             IN  /\ Len(sw) <= 1
                 /\ Len(s) >= n + 1 =>
                      /\ Len(sw) = 1
                      /\ sw[1] < s[n + 1]

\* Two swap_buffers() calls have returned after init().
C16_Witness ==
    /\ Len(SwapRetIdx) = 2
    /\ proc = "tail"
    /\ Sent(CaSet) = 1 /\ Sent(RaSet) = 1
    /\ Sent(RamWr) = 4

\* ----------------------------------------------------------------- C17
\* In how many places the bus handle and the channel handle are held: the
\* driver's field, a local of the running call, a transfer object (which
\* bundles both with its buffer).
SpiPlaces ==
    (IF spi THEN 1 ELSE 0) + (IF locals.spi THEN 1 ELSE 0) + TransferObjects
ChPlaces ==
    (IF dma_ch THEN 1 ELSE 0) + (IF locals.ch THEN 1 ELSE 0) + TransferObjects

\* C17: the bus and the DMA channel are each held in exactly one place.
\* Before init() that place is the driver's field and there is no transfer;
\* after init() and after every swap_buffers() it is the one transfer stored
\* in the driver, and the fields spi and dma_ch are empty from the first
\* start of a transfer on.
C17_HandlesInOnePlace ==
    /\ SpiPlaces = 1 /\ ChPlaces = 1
    /\ proc = "boot" =>
         /\ spi /\ dma_ch
         /\ transfer = None /\ hw.buf = None
    /\ BetweenCalls =>
         /\ ~spi /\ ~dma_ch
         /\ ~locals.spi /\ ~locals.ch
         /\ transfer # None /\ locals.transfer = None
    /\ Len(StartIdx) > 0 => ~spi /\ ~dma_ch

\* After the third swap_buffers() the handles are in the stored transfer.
C17_Witness ==
    /\ proc = "tail"
    /\ Len(SwapRetIdx) = 3
    /\ ~spi /\ ~dma_ch
    /\ transfer # None

\* ----------------------------------------------------------------- C18
PinIdx == IdxSeq(LAMBDA e : e.ev = "pin")

\* C18: while a transfer object exists (from the start of a transfer until
\* the wait() of the next swap_buffers() has returned) chip-select is low,
\* data/command is high and reset is high; the log has no pin transition
\* between a start and the wait for that transfer, and every transition of
\* chip-select to high after the first start comes when as many waits have
\* returned as transfers were started.
C18_LinesHeldDuringTransfer ==
    LET s == StartIdx
        w == WaitIdx
        p == PinIdx
    IN  /\ TransferObjects = 1 => cs = Low /\ dc = High /\ rst = High
        /\ Len(w) <= Len(s)
        /\ \A n \in 1..Len(s) :
             LET hi == IF n <= Len(w) THEN w[n] ELSE Len(log) + 1
             IN  /\ s[n] < hi
                 /\ \A k \in 1..Len(p) : ~(s[n] < p[k] /\ p[k] < hi)
        /\ \A k \in 1..Len(p) :
             (Len(s) > 0 /\ p[k] > s[1] /\ IsPin(log[p[k]], "cs", High)) =>
               Len(SelectSeq(w, LAMBDA i : i < p[k]))
                 = Len(SelectSeq(s, LAMBDA i : i < p[k]))

\* The second swap_buffers() is waiting for a transfer the channel has not
\* finished, with the panel still selected.
C18_Witness ==
    /\ proc = "swap" /\ At("wait")
    /\ hw.pos < BufLen
    /\ cs = Low /\ dc = High
    /\ Len(SwapCallIdx) = 2

\* ----------------------------------------------------------------- C19
\* The first call on the driver is swap_buffers().
SwapFirst == Len(log) > 0 /\ log[1].ev = "call" /\ log[1].fn = "swap"

\* C19: swap_buffers() called on the driver new() returned can only panic,
\* at its first statement: it stays at that statement until it halts, the
\* log has no pin transition, write, start or return after the call, the
\* control lines are as new() received them, no transfer exists and the
\* channel is idle, no buffer has come back to the caller, and spi and
\* dma_ch are still in the driver's fields.
C19_SwapBeforeInitAborts ==
    SwapFirst =>
      /\ proc \in {"swap", "halt"}
      /\ proc = "swap" =>
           /\ pc = 1
           /\ ENABLED Panic
           /\ ~ENABLED TakeTransferField
      /\ Len(log) <= 2
      /\ Len(log) = 2 <=> proc = "halt"
      /\ Len(log) = 2 => log[2].ev = "panic" /\ log[2].at = 1
      /\ cs = High /\ dc = Low /\ rst = High
      /\ spi /\ dma_ch
      /\ transfer = None /\ TransferObjects = 0
      /\ hw = HwIdle
      /\ buffer = None /\ allocated = {}

\* swap_buffers() before init() has panicked and the program is halted.
C19_Witness ==
    /\ SwapFirst
    /\ proc = "halt"
    /\ Last.ev = "panic" /\ Last.fn = "swap"

\* ----------------------------------------------------------------- C20
InitCallIdx == IdxSeq(LAMBDA e : e.ev = "call" /\ e.fn = "init")
\* The position of init()'s first bus write: write_command(SwReset).
FirstWritePc ==
    CHOOSE i \in 1..Len(InitOps) :
        /\ InitOps[i].op = "write"
        /\ \A k \in 1..(i - 1) : InitOps[k].op # "write"

\* C20: a second init() on an initialized driver panics at its first command
\* write, the spi field being empty: it never gets past that write, the log
\* has no write, start or return after the second call, no buffer is
\* allocated, the caller keeps the one buffer it held, and the one transfer
\* stays stored in the driver.  In every call order there are at most the
\* two static buffers, at most one transfer object, and never more starts
\* than waits plus one.
C20_SecondInitAborts ==
    LET c == InitCallIdx
    IN  /\ Len(c) <= 2
        /\ Cardinality(allocated) <= 2
        /\ TransferObjects <= 1
        /\ Len(StartIdx) <= Len(WaitIdx) + 1
        /\ Len(c) = 2 =>
             /\ proc \in {"init", "halt"}
             /\ \A k \in (c[2] + 1)..Len(log) :
                  log[k].ev \notin {"write", "start", "wait", "ret"}
             /\ proc = "init" =>
                  /\ pc <= FirstWritePc
                  /\ pc = FirstWritePc =>
                       (ENABLED Panic) /\ ~ENABLED BusWrite
             /\ proc = "halt" =>
                  /\ Last.ev = "panic" /\ Last.fn = "init"
                  /\ Last.at = FirstWritePc
             /\ ~spi /\ ~dma_ch
             /\ allocated = Buffers
             /\ locals.buffer_a = None /\ locals.buffer_b = None
             /\ transfer \in Buffers /\ TransferObjects = 1
             /\ buffer \in Buffers /\ buffer # transfer
             /\ hw.buf = transfer

\* init() called again after two swap_buffers() calls has panicked.
C20_Witness ==
    /\ Len(InitCallIdx) = 2
    /\ Len(SwapRetIdx) = 2
    /\ proc = "halt"
    /\ Last.ev = "panic" /\ Last.at = FirstWritePc
====
